---------------------------- MODULE Spec2Model ----------------------------
(***************************************************************************)
(* A model of the notification flow of the WebView screen                  *)
(* (src/app/(tabs)/index.tsx), of the playback flow of the video player    *)
(* screen (src/app/video-player.tsx) and of the theme store                *)
(* (src/contexts/ThemeContext.tsx).                                        *)
(*                                                                         *)
(* Every async function is a process: the action named after the function  *)
(* is its synchronous part up to the first await, and one action per       *)
(* outcome of each awaited platform call (resolve / reject) is the         *)
(* continuation that runs after it.  The platform (permission status,      *)
(* notification taps, page-load events, playback status pushes) is the     *)
(* environment and acts nondeterministically.                              *)
(***************************************************************************)
EXTENDS Integers, Sequences, FiniteSets, TLC

VARIABLES
    \* ---- notification subsystem (platform) and scheduleNotification calls
    permission,     \* the platform's current notification permission status
    calls,          \* every scheduleNotification invocation, in call order
    platformCalls,  \* every Notifications.scheduleNotificationAsync issued
    \* ---- WebView screen
    platformOS,     \* Platform.OS
    mounted,        \* WebViewScreen is mounted and its effect has run
    router,         \* identity of the object useRouter() returned last
    listeners,      \* live notification-response subscriptions (platform)
    subscription,   \* the subscription the current effect's cleanup removes
    nextSub,        \* number of subscriptions created so far
    regs,           \* every registerForPushNotificationsAsync invocation
    taps,           \* every notification-tap event delivered by the platform
    isLoading,      \* useState(true), index.tsx:152
    pageLoad,       \* the WebView's page load: its number and how far it got
    \* ---- video player screen
    videoAttached,  \* videoRef.current is not null
    status,         \* useState<AVPlaybackStatus | null>(null)
    isMuted,        \* useState(false)
    isFullscreen,   \* useState(false)
    rendered,       \* the state the last render (and its closures) captured
    display,        \* what the last render showed: labels and progress
    muteCalls,      \* every handleToggleMute invocation, in gesture order
    fullscreenCalls,\* every handleToggleFullscreen invocation, in gesture order
    transportCalls, \* every handlePlay / handlePause / handleSeek invocation
    \* ---- theme store (ThemeProvider)
    themePreference,   \* useState<ColorScheme>('dark'), ThemeContext.tsx:28
    isLoaded,          \* useState(false), ThemeContext.tsx:29
    systemColorScheme, \* what useRNColorScheme() returns ("null" when unknown)
    stored,            \* the value under THEME_STORAGE_KEY, once it is known
    themeLoad,         \* the mount effect's AsyncStorage.getItem
    themeCalls         \* every setThemePreference / toggleTheme invocation

notifVars  == <<permission, calls, platformCalls>>
screenVars == <<platformOS, mounted, router, listeners, subscription, nextSub, regs, taps>>
loadVars   == <<isLoading, pageLoad>>
playerVars == <<videoAttached, status, isMuted, isFullscreen, rendered, display, muteCalls,
               fullscreenCalls, transportCalls>>
themeVars  == <<themePreference, isLoaded, systemColorScheme, stored, themeLoad, themeCalls>>
vars == <<notifVars, screenVars, loadVars, playerVars, themeVars>>

---------------------------------------------------------------------------
(* Bounds of the model.                                                    *)
MaxCalls == 2       \* scheduleNotification invocations per behaviour
MaxEffects == 2     \* runs of the screen's listener effect per behaviour
MaxTaps == 2        \* notification-tap events per behaviour
MaxLoads == 2       \* page loads (onLoadStart events) per behaviour
MaxGestures == 3    \* mute gestures per behaviour
MaxFullscreen == 2  \* fullscreen gestures per behaviour
MaxTransport == 2   \* play / pause / seek gestures per behaviour
MaxHandlers == 2    \* handler invocations per behaviour when all handlers run
MaxThemeCalls == 1  \* setThemePreference / toggleTheme invocations per behaviour

PermissionStatuses == {"granted", "denied", "undetermined"}
\* what the device settings let the user switch between
SettingsStatuses == {"granted", "denied"}

---------------------------------------------------------------------------
(* Notification content data: undefined, or an object whose               *)
(* openVideoPlayer property is absent, true or false.                     *)
Undefined == [kind |-> "undefined", openVideoPlayer |-> "absent"]
EmptyData == [kind |-> "object", openVideoPlayer |-> "absent"]
OpenVideoData == [kind |-> "object", openVideoPlayer |-> "true"]
NoOpenVideoData == [kind |-> "object", openVideoPlayer |-> "false"]

\* index.tsx:231  data: data || {}
dataOrEmpty(data) == IF data.kind = "undefined" THEN EmptyData ELSE data

\* index.tsx:215-217  if (delaySeconds <= 0) delaySeconds = 1
\* (faulty variant: the delay passed through with the clamp left out)
clampNone(delaySeconds) == delaySeconds
clampDelay(delaySeconds) == IF delaySeconds <= 0 THEN 1 ELSE delaySeconds

\* index.tsx:221  status !== 'granted' is the early return
\* (faulty variant: the early return left out)
grantedAlways(st) == TRUE
isGranted(st) == st = "granted"

NewCall(caller, title, delaySeconds, data, load) ==
    [caller |-> caller, title |-> title, requested |-> delaySeconds,
     delaySeconds |-> clampDelay(delaySeconds), data |-> data, load |-> load,
     pc |-> "getPermissions", status |-> "unchecked",
     scheduleOutcome |-> "none", result |-> "pending",
     errorAlert |-> FALSE, feedbackAlert |-> FALSE, rejected |-> FALSE]

\* index.tsx:259-265, 281-287: the button handlers alert when success is true;
\* handleLoadEnd (293) discards the result.
callerContinues(c, success) ==
    [c EXCEPT !.pc = "returned",
              !.result = IF success THEN "true" ELSE "false",
              !.feedbackAlert = success /\ c.caller \in {"first", "second"}]

\* index.tsx:242-246: catch (error) { console.error; Alert.alert; return false }
\* (faulty variant: a catch that lets the rejection through)
catchRethrows(c) == [c EXCEPT !.pc = "returned", !.result = "rejected", !.rejected = TRUE]
catchError(c) == [callerContinues(c, FALSE) EXCEPT !.errorAlert = TRUE]

\* index.tsx:207-220: the synchronous part of scheduleNotification, which
\* clamps the delay and issues Notifications.getPermissionsAsync().
scheduleNotification(caller, title, delaySeconds, data, load) ==
    /\ Len(calls) < MaxCalls
    /\ calls' = Append(calls, NewCall(caller, title, delaySeconds, data, load))
    /\ UNCHANGED <<permission, platformCalls>>

\* index.tsx:227-238  every granted call hands its own request to
\* Notifications.scheduleNotificationAsync; nothing looks at earlier requests
\* (faulty variant: a request equal to a pending one is dropped)
submitDeduplicated(requests, request) ==
    IF \E k \in 1..Len(requests) :
          /\ requests[k].title = request.title
          /\ requests[k].data = request.data
          /\ requests[k].seconds = request.seconds
    THEN requests
    ELSE Append(requests, request)
submit(requests, request) == Append(requests, request)

\* index.tsx:220-238: getPermissionsAsync resolved with the status the
\* platform holds now; not granted returns false, granted issues
\* Notifications.scheduleNotificationAsync with the time-interval trigger.
getPermissionsResolve(i) ==
    /\ i \in 1..Len(calls)
    /\ calls[i].pc = "getPermissions"
    /\ LET c == [calls[i] EXCEPT !.status = permission]
       IN IF isGranted(c.status)
          THEN /\ calls' = [calls EXCEPT ![i] =
                     [c EXCEPT !.pc = "schedule", !.scheduleOutcome = "pending"]]
               /\ platformCalls' = submit(platformCalls,
                     [call |-> i, title |-> c.title,
                      data |-> dataOrEmpty(c.data), seconds |-> c.delaySeconds])
          ELSE /\ calls' = [calls EXCEPT ![i] = callerContinues(c, FALSE)]
               /\ UNCHANGED platformCalls
    /\ UNCHANGED <<permission, screenVars, loadVars, playerVars, themeVars>>

\* index.tsx:220, 242-246: getPermissionsAsync rejected.
getPermissionsReject(i) ==
    /\ i \in 1..Len(calls)
    /\ calls[i].pc = "getPermissions"
    /\ calls' = [calls EXCEPT ![i] = catchError([calls[i] EXCEPT !.status = "rejected"])]
    /\ UNCHANGED <<permission, platformCalls, screenVars, loadVars, playerVars, themeVars>>

\* index.tsx:227-241: scheduleNotificationAsync resolved; return true.
scheduleResolve(i) ==
    /\ i \in 1..Len(calls)
    /\ calls[i].pc = "schedule"
    /\ calls' = [calls EXCEPT ![i] =
          callerContinues([calls[i] EXCEPT !.scheduleOutcome = "accepted"], TRUE)]
    /\ UNCHANGED <<permission, platformCalls, screenVars, loadVars, playerVars, themeVars>>

\* index.tsx:227, 242-246: scheduleNotificationAsync rejected.
scheduleReject(i) ==
    /\ i \in 1..Len(calls)
    /\ calls[i].pc = "schedule"
    /\ calls' = [calls EXCEPT ![i] =
          catchError([calls[i] EXCEPT !.scheduleOutcome = "rejected"])]
    /\ UNCHANGED <<permission, platformCalls, screenVars, loadVars, playerVars, themeVars>>

\* The user grants or revokes the permission in the device settings.
PermissionChange(p) ==
    /\ p # permission
    /\ permission' = p
    /\ UNCHANGED <<calls, platformCalls, screenVars, loadVars, playerVars, themeVars>>

\* scheduleNotification applied to any delay and any data.
Delays == {-3, 0, 1, 4}
DirectData == {Undefined, OpenVideoData}

scheduleNotificationDirect(delaySeconds, data) ==
    /\ scheduleNotification("direct", "Direct", delaySeconds, data, 0)
    /\ UNCHANGED <<screenVars, loadVars, playerVars, themeVars>>

---------------------------------------------------------------------------
(* The WebView screen: its listener effect (index.tsx:157-171).             *)

\* index.tsx:174-189: the synchronous part of
\* registerForPushNotificationsAsync: on android it first awaits
\* setNotificationChannelAsync, elsewhere it goes straight to
\* requestPermissionsAsync.
\* index.tsx:177  if (Platform.OS === 'android'): the first platform call
\* (faulty variant: the channel registration skipped on every platform)
firstStepRequest(os) == "request"
firstStep(os) == IF os = "android" THEN "channel" ELSE "request"

NewRegistration ==
    [pc |-> firstStep(platformOS),
     channel |-> IF firstStep(platformOS) = "channel" THEN "pending" ELSE "none",
     issued |-> IF firstStep(platformOS) = "channel"
                THEN <<"setNotificationChannelAsync">>
                ELSE <<"requestPermissionsAsync">>,
     status |-> "unasked", result |-> "pending", alert |-> FALSE, alerts |-> 0]

\* index.tsx:170  return () => subscription.remove()
\* (faulty variant: a cleanup that removes nothing)
removeNothing(ls, sub) == ls
removeSubscription(ls, sub) == {l \in ls : l.id # sub}

\* index.tsx:164  if (data?.openVideoPlayer)
\* (faulty variant: a handler that ignores the payload)
navigatesAlways(data) == TRUE
shouldNavigate(data) == data.kind = "object" /\ data.openVideoPlayer = "true"

\* index.tsx:158-167: the effect body with the router it closes over.
\* `ls` are the subscriptions left by the cleanup that ran before it.
runEffect(ls, r) ==
    /\ regs' = Append(regs, NewRegistration)
    /\ nextSub' = nextSub + 1
    /\ subscription' = nextSub + 1
    /\ listeners' = ls \cup {[id |-> nextSub + 1, router |-> r]}

\* The screen mounts: useState(true) for isLoading, a fresh WebView that has
\* fired no event yet, and the effect runs.
Mount ==
    /\ ~mounted
    /\ nextSub < MaxEffects
    /\ mounted' = TRUE
    /\ isLoading' = TRUE
    /\ pageLoad' = [pageLoad EXCEPT !.phase = "none"]
    /\ runEffect(listeners, router)
    /\ UNCHANGED <<platformOS, router, taps, notifVars, playerVars, themeVars>>

\* index.tsx:171  [router]: useRouter() returned another object, so the
\* effect's cleanup runs and then the effect runs again.
RouterChange ==
    /\ mounted
    /\ nextSub < MaxEffects
    /\ router' = router + 1
    /\ runEffect(removeSubscription(listeners, subscription), router + 1)
    /\ UNCHANGED <<platformOS, mounted, taps, loadVars, notifVars, playerVars, themeVars>>

\* The screen unmounts: the effect's cleanup runs.
Unmount ==
    /\ mounted
    /\ mounted' = FALSE
    /\ listeners' = removeSubscription(listeners, subscription)
    /\ subscription' = 0
    /\ UNCHANGED <<platformOS, router, nextSub, regs, taps, loadVars, notifVars, playerVars, themeVars>>

\* index.tsx:178-189: setNotificationChannelAsync resolved;
\* requestPermissionsAsync is issued.
channelResolve(i) ==
    /\ i \in 1..Len(regs)
    /\ regs[i].pc = "channel"
    /\ regs' = [regs EXCEPT ![i] =
          [@ EXCEPT !.pc = "request", !.channel = "registered",
                    !.issued = Append(@, "requestPermissionsAsync")]]
    /\ UNCHANGED <<platformOS, mounted, router, listeners, subscription, nextSub, taps,
                   loadVars, notifVars, playerVars, themeVars>>

\* index.tsx:199-202: catch (error) { console.error; return false }
channelReject(i) ==
    /\ i \in 1..Len(regs)
    /\ regs[i].pc = "channel"
    /\ regs' = [regs EXCEPT ![i] =
          [@ EXCEPT !.pc = "returned", !.channel = "rejected", !.result = "false"]]
    /\ UNCHANGED <<platformOS, mounted, router, listeners, subscription, nextSub, taps,
                   loadVars, notifVars, playerVars, themeVars>>

\* index.tsx:189-198: requestPermissionsAsync resolved.  While the status is
\* undetermined the platform asks the user, whose answer becomes the status.
requestPermissionsResolve(i, answer) ==
    /\ i \in 1..Len(regs)
    /\ regs[i].pc = "request"
    /\ permission' = IF permission = "undetermined" THEN answer ELSE permission
    /\ regs' = [regs EXCEPT ![i] =
          [@ EXCEPT !.pc = "returned", !.status = permission',
                    !.alert = (permission' # "granted"),
                    !.alerts = IF permission' # "granted" THEN @ + 1 ELSE @,
                    !.result = IF permission' = "granted" THEN "true" ELSE "false"]]
    /\ UNCHANGED <<platformOS, mounted, router, listeners, subscription, nextSub, taps,
                   calls, platformCalls, loadVars, playerVars, themeVars>>

\* index.tsx:189, 199-202: requestPermissionsAsync rejected.
requestPermissionsReject(i) ==
    /\ i \in 1..Len(regs)
    /\ regs[i].pc = "request"
    /\ regs' = [regs EXCEPT ![i] =
          [@ EXCEPT !.pc = "returned", !.status = "rejected", !.result = "false"]]
    /\ UNCHANGED <<platformOS, mounted, router, listeners, subscription, nextSub, taps,
                   loadVars, notifVars, playerVars, themeVars>>

\* index.tsx:162-167: the platform delivers a notification-tap event to
\* every live subscription; each handler pushes through the router it
\* closed over when the payload asks for it.
NotificationTap(data) ==
    /\ Len(taps) < MaxTaps
    /\ LET pushing == IF shouldNavigate(data) THEN listeners ELSE {}
       IN taps' = Append(taps,
             [data |-> data, mounted |-> mounted, router |-> router,
              handlers |-> Cardinality(listeners),
              pushes |-> Cardinality(pushing),
              via |-> {l.router : l \in pushing}])
    /\ UNCHANGED <<platformOS, mounted, router, listeners, subscription, nextSub, regs,
                   loadVars, notifVars, playerVars, themeVars>>

\* The payloads the app's notifications carry: none (the theme
\* notification, ThemeContext.tsx:67-73), {} and {openVideoPlayer: true}.
TapData == {Undefined, EmptyData, OpenVideoData, NoOpenVideoData}

---------------------------------------------------------------------------
(* The WebView screen: buttons and page-load events (index.tsx:249-310).    *)

\* index.tsx:251  Math.floor(Math.random() * 4) + 2
\* (faulty variant: the "+ 2" left out)
FirstDelaysUnshifted == 0..3
FirstDelays == 2..5

\* index.tsx:250-266
handleFirstNotification(delay) ==
    /\ mounted
    /\ scheduleNotification("first", "Welcome Notification!", delay, Undefined, 0)
    /\ UNCHANGED <<screenVars, loadVars, playerVars, themeVars>>

\* index.tsx:269-288
handleSecondNotification ==
    /\ mounted
    /\ scheduleNotification("second", "Action Completed!", 5, OpenVideoData, 0)
    /\ UNCHANGED <<screenVars, loadVars, playerVars, themeVars>>

\* index.tsx:292, 302, 309  what each load callback passes to setIsLoading
\* (faulty variant: onError leaves the indicator on)
loadingStuckOnError(event) == event # "loadEnd"
loadingAfter(event) == event = "loadStart"

\* index.tsx:301-303, fired by the WebView's onLoadStart.
handleLoadStart ==
    /\ mounted
    /\ pageLoad.n < MaxLoads
    /\ isLoading' = loadingAfter("loadStart")
    /\ pageLoad' = [n |-> pageLoad.n + 1, phase |-> "started"]
    /\ UNCHANGED <<screenVars, notifVars, playerVars, themeVars>>

\* index.tsx:306-310, fired by the WebView's onError.
handleError ==
    /\ mounted
    /\ pageLoad.phase = "started"
    /\ isLoading' = loadingAfter("error")
    /\ pageLoad' = [pageLoad EXCEPT !.phase = "errored"]
    /\ UNCHANGED <<screenVars, notifVars, playerVars, themeVars>>

\* index.tsx:291-298, fired by the WebView's onLoadEnd, which the WebView
\* fires when a load finishes, whether it succeeded or failed.
handleLoadEnd ==
    /\ mounted
    /\ pageLoad.phase \in {"started", "errored"}
    /\ isLoading' = loadingAfter("loadEnd")
    /\ pageLoad' = [pageLoad EXCEPT !.phase = IF @ = "errored" THEN "erroredEnded" ELSE "ended"]
    /\ scheduleNotification("loadEnd", "WebView Loaded!", 2, Undefined, pageLoad.n)
    /\ UNCHANGED <<screenVars, playerVars, themeVars>>

---------------------------------------------------------------------------
(* The video player screen (video-player.tsx:111-213).                      *)

\* AVPlaybackStatus as the screen reads it: null before the first update,
\* not loaded (no positionMillis and no durationMillis key), or loaded with
\* positionMillis and an optional durationMillis.
NullStatus == [kind |-> "null", positionMillis |-> 0, hasDuration |-> FALSE, durationMillis |-> 0]
NotLoaded == [kind |-> "notLoaded", positionMillis |-> 0, hasDuration |-> FALSE, durationMillis |-> 0]
Loaded(position, duration) ==
    [kind |-> "loaded", positionMillis |-> position, hasDuration |-> TRUE, durationMillis |-> duration]
LoadedNoDuration(position) ==
    [kind |-> "loaded", positionMillis |-> position, hasDuration |-> FALSE, durationMillis |-> 0]

\* video-player.tsx:184  status && 'positionMillis' in status
hasPosition(st) == st.kind = "loaded"

\* video-player.tsx:195  status && 'durationMillis' in status && status.durationMillis
\* (faulty variant: the truthiness test of durationMillis left out)
durationAlways(st) == st.kind = "loaded"
hasTruthyDuration(st) == st.kind = "loaded" /\ st.hasDuration /\ st.durationMillis # 0

\* String.prototype.padStart with a one-character padString
RECURSIVE padStart(_, _, _)
\* (faulty variant: no padding)
padNone(str, targetLength, padString) == str
padStart(str, targetLength, padString) ==
    IF Len(str) >= targetLength THEN str
    ELSE padStart(padString \o str, targetLength, padString)

\* video-player.tsx:185-188 and 196-199: the body the two labels share
formatMillis(millis) ==
    LET seconds == millis \div 1000
        mins == seconds \div 60
        secs == seconds % 60
    IN ToString(mins) \o ":" \o padStart(ToString(secs), 2, "0")

\* video-player.tsx:183-191
getCurrentTime(st) == IF hasPosition(st) THEN formatMillis(st.positionMillis) ELSE "0:00"

\* video-player.tsx:194-202
getDuration(st) == IF hasTruthyDuration(st) THEN formatMillis(st.durationMillis) ELSE "0:00"

\* video-player.tsx:205-210.  The quotient (positionMillis / durationMillis)
\* * 100 is kept as the fraction num / den; `divided` says whether the
\* division by durationMillis was performed.
\* (faulty variant: the ratio without the factor 100)
progressRatio(st) == [num |-> st.positionMillis, den |-> st.durationMillis, divided |-> TRUE]
progressPercent(st) == [num |-> st.positionMillis * 100, den |-> st.durationMillis, divided |-> TRUE]
getProgress(st) ==
    IF hasPosition(st) /\ hasTruthyDuration(st)
    THEN progressPercent(st)
    ELSE [num |-> 0, den |-> 1, divided |-> FALSE]

\* video-player.tsx:311, 323, 326: what one render shows
deriveDisplay(st) ==
    [currentTime |-> getCurrentTime(st), duration |-> getDuration(st), progress |-> getProgress(st)]

\* video-player.tsx:124-126
handlePlaybackStatusUpdate(st) ==
    /\ status' = st
    /\ UNCHANGED <<videoAttached, isMuted, isFullscreen, rendered, display, muteCalls,
                   notifVars, screenVars, loadVars,
                   fullscreenCalls, transportCalls, themeVars>>

\* The screen re-renders after a state change: the handlers of this render
\* close over the state it read, and the labels are derived from it.
Render ==
    /\ rendered # [status |-> status, isMuted |-> isMuted, isFullscreen |-> isFullscreen]
    /\ rendered' = [status |-> status, isMuted |-> isMuted, isFullscreen |-> isFullscreen]
    /\ display' = deriveDisplay(status)
    /\ UNCHANGED <<videoAttached, status, isMuted, isFullscreen, muteCalls,
                   notifVars, screenVars, loadVars,
                   fullscreenCalls, transportCalls, themeVars>>

\* video-player.tsx:289  ref={videoRef}: the Video element attaches
VideoRefAttach ==
    /\ ~videoAttached
    /\ videoAttached' = TRUE
    /\ UNCHANGED <<status, isMuted, isFullscreen, rendered, display, muteCalls,
                   notifVars, screenVars, loadVars,
                   fullscreenCalls, transportCalls, themeVars>>

BoolName(b) == IF b THEN "true" ELSE "false"

\* video-player.tsx:132-134, 141-143, 153-155, 163-165, 177-179: every player
\* handler awaits its command inside try and its catch only logs
\* (faulty variant: the rejection leaves the handler)
uncaught(c) == [c EXCEPT !.outcome = "unhandled"]
caught(c) == [c EXCEPT !.outcome = "rejected"]

\* video-player.tsx:161  setIsMutedAsync(!isMuted)
commandValue(capturedIsMuted) == ~capturedIsMuted

\* video-player.tsx:162  setIsMuted(!isMuted)
\* (faulty variant: the negation left out)
nextIsMutedSame(capturedIsMuted) == capturedIsMuted
nextIsMuted(capturedIsMuted) == ~capturedIsMuted

MuteSettled == \A i \in 1..Len(muteCalls) : muteCalls[i].outcome # "pending"

\* video-player.tsx:159-162: the gesture runs the handler of the last render.
\* With the element attached it issues setIsMutedAsync and awaits it; with
\* videoRef.current null the optional call is skipped, `await undefined`
\* resumes at once and setIsMuted runs.
handleToggleMute ==
    /\ Len(muteCalls) < MaxGestures
    /\ LET captured == rendered.isMuted
           call == [captured |-> captured, before |-> isMuted,
                    sequential |-> MuteSettled /\ rendered.isMuted = isMuted,
                    cmd |-> IF videoAttached THEN BoolName(commandValue(captured)) ELSE "none",
                    outcome |-> IF videoAttached THEN "pending" ELSE "noCommand",
                    after |-> IF videoAttached THEN "unset" ELSE BoolName(nextIsMuted(captured)),
                    applied |-> 0]
       IN /\ muteCalls' = Append(muteCalls, call)
          /\ isMuted' = IF videoAttached THEN isMuted ELSE nextIsMuted(captured)
    /\ UNCHANGED <<videoAttached, status, isFullscreen, rendered, display,
                   notifVars, screenVars, loadVars,
                   fullscreenCalls, transportCalls, themeVars>>

\* The place of the next command in the order in which the media element
\* applies the set-muted commands it received (video-player.tsx:161)
nextApplied(mc) == Cardinality({k \in 1..Len(mc) : mc[k].applied > 0}) + 1

\* video-player.tsx:161  the media element applies a setIsMutedAsync it has
\* received; its promise resolves at this moment or later
setIsMutedApply(i) ==
    /\ i \in 1..Len(muteCalls)
    /\ muteCalls[i].outcome = "pending"
    /\ muteCalls[i].applied = 0
    /\ muteCalls' = [muteCalls EXCEPT ![i] = [@ EXCEPT !.applied = nextApplied(muteCalls)]]
    /\ UNCHANGED <<videoAttached, status, isMuted, isFullscreen, rendered, display,
                   notifVars, screenVars, loadVars,
                   fullscreenCalls, transportCalls, themeVars>>

\* video-player.tsx:161-162: setIsMutedAsync resolved; setIsMuted(!isMuted).
\* A command that resolves has been applied, at the latest now.
setIsMutedResolve(i) ==
    /\ i \in 1..Len(muteCalls)
    /\ muteCalls[i].outcome = "pending"
    /\ isMuted' = nextIsMuted(muteCalls[i].captured)
    /\ muteCalls' = [muteCalls EXCEPT ![i] =
          [@ EXCEPT !.outcome = "resolved", !.after = BoolName(isMuted'),
                    !.applied = IF @ = 0 THEN nextApplied(muteCalls) ELSE @]]
    /\ UNCHANGED <<videoAttached, status, isFullscreen, rendered, display,
                   notifVars, screenVars, loadVars,
                   fullscreenCalls, transportCalls, themeVars>>

\* video-player.tsx:163-165: setIsMutedAsync rejected; console.error.
\* A command that rejects was not applied.
setIsMutedReject(i) ==
    /\ i \in 1..Len(muteCalls)
    /\ muteCalls[i].outcome = "pending"
    /\ muteCalls[i].applied = 0
    /\ muteCalls' = [muteCalls EXCEPT ![i] = caught(@)]
    /\ UNCHANGED <<videoAttached, status, isMuted, isFullscreen, rendered, display,
                   notifVars, screenVars, loadVars,
                   fullscreenCalls, transportCalls, themeVars>>

\* video-player.tsx:171-175: which command the captured flag selects
fullscreenCommand(capturedIsFullscreen) ==
    IF ~capturedIsFullscreen THEN "present" ELSE "dismiss"

\* video-player.tsx:176  setIsFullscreen(!isFullscreen)
nextIsFullscreen(capturedIsFullscreen) == ~capturedIsFullscreen

\* video-player.tsx:169-176: the gesture runs the handler of the last render.
\* With the element attached it issues presentFullscreenPlayer or
\* dismissFullscreenPlayer and awaits it; with videoRef.current null the
\* optional call is skipped and setIsFullscreen runs.
handleToggleFullscreen ==
    /\ Len(fullscreenCalls) < MaxFullscreen
    /\ LET captured == rendered.isFullscreen
           call == [captured |-> captured, before |-> isFullscreen,
                    cmd |-> IF videoAttached THEN fullscreenCommand(captured) ELSE "none",
                    outcome |-> IF videoAttached THEN "pending" ELSE "noCommand",
                    after |-> IF videoAttached THEN "unset"
                              ELSE BoolName(nextIsFullscreen(captured))]
       IN /\ fullscreenCalls' = Append(fullscreenCalls, call)
          /\ isFullscreen' = IF videoAttached THEN isFullscreen
                             ELSE nextIsFullscreen(captured)
    /\ UNCHANGED <<videoAttached, status, isMuted, rendered, display, muteCalls,
                   transportCalls, notifVars, screenVars, loadVars, themeVars>>

\* video-player.tsx:172/174, 176: the fullscreen command resolved
fullscreenResolve(i) ==
    /\ i \in 1..Len(fullscreenCalls)
    /\ fullscreenCalls[i].outcome = "pending"
    /\ isFullscreen' = nextIsFullscreen(fullscreenCalls[i].captured)
    /\ fullscreenCalls' = [fullscreenCalls EXCEPT ![i] =
          [@ EXCEPT !.outcome = "resolved", !.after = BoolName(isFullscreen')]]
    /\ UNCHANGED <<videoAttached, status, isMuted, rendered, display, muteCalls,
                   transportCalls, notifVars, screenVars, loadVars, themeVars>>

\* video-player.tsx:177-179: the fullscreen command rejected; console.error
fullscreenReject(i) ==
    /\ i \in 1..Len(fullscreenCalls)
    /\ fullscreenCalls[i].outcome = "pending"
    /\ fullscreenCalls' = [fullscreenCalls EXCEPT ![i] = caught(@)]
    /\ UNCHANGED <<videoAttached, status, isMuted, isFullscreen, rendered, display,
                   muteCalls, transportCalls, notifVars, screenVars, loadVars, themeVars>>

\* video-player.tsx:131, 140, 151  videoRef.current?.command(): the optional
\* call reaches the element only when the ref is attached
\* (faulty variant: a command goes out whatever the ref holds)
refCallAlways(attached) == TRUE
refCall(attached) == attached

\* video-player.tsx:150  status.positionMillis + seconds * 1000
\* (faulty variant: the target kept from going below zero)
seekTargetClamped(positionMillis, seconds) ==
    IF positionMillis + seconds * 1000 < 0 THEN 0 ELSE positionMillis + seconds * 1000
seekTarget(positionMillis, seconds) == positionMillis + seconds * 1000

\* video-player.tsx:335, 349  the two seek buttons
SeekDeltas == {-10, 10}

\* The commands one gesture sends to the element
issue(attached, command) == IF refCall(attached) THEN <<command>> ELSE <<>>

NewTransport(kind, seconds, captured, commands) ==
    [kind |-> kind, seconds |-> seconds, attached |-> videoAttached,
     captured |-> captured,
     commands |-> commands,
     outcome |-> IF commands = <<>> THEN "noCommand" ELSE "pending",
     changed |-> FALSE]

\* video-player.tsx:129-131  await videoRef.current?.playAsync()
handlePlay ==
    /\ Len(transportCalls) < MaxTransport
    /\ transportCalls' = Append(transportCalls,
          NewTransport("play", 0, rendered.status,
                       issue(videoAttached, [cmd |-> "playAsync", position |-> 0])))
    /\ UNCHANGED <<videoAttached, status, isMuted, isFullscreen, rendered, display,
                   muteCalls, fullscreenCalls, notifVars, screenVars, loadVars, themeVars>>

\* video-player.tsx:138-140  await videoRef.current?.pauseAsync()
handlePause ==
    /\ Len(transportCalls) < MaxTransport
    /\ transportCalls' = Append(transportCalls,
          NewTransport("pause", 0, rendered.status,
                       issue(videoAttached, [cmd |-> "pauseAsync", position |-> 0])))
    /\ UNCHANGED <<videoAttached, status, isMuted, isFullscreen, rendered, display,
                   muteCalls, fullscreenCalls, notifVars, screenVars, loadVars, themeVars>>

\* video-player.tsx:147-152  the handler of the last render reads the status
\* that render captured; without a position in it nothing is sent
handleSeek(seconds) ==
    /\ Len(transportCalls) < MaxTransport
    /\ LET captured == rendered.status
       IN transportCalls' = Append(transportCalls,
             NewTransport("seek", seconds, captured,
                 IF hasPosition(captured)
                 THEN issue(videoAttached,
                            [cmd |-> "setPositionAsync",
                             position |-> seekTarget(captured.positionMillis, seconds)])
                 ELSE <<>>))
    /\ UNCHANGED <<videoAttached, status, isMuted, isFullscreen, rendered, display,
                   muteCalls, fullscreenCalls, notifVars, screenVars, loadVars, themeVars>>

\* video-player.tsx:131, 140, 151: the command resolved; the handler returns
transportResolve(i) ==
    /\ i \in 1..Len(transportCalls)
    /\ transportCalls[i].outcome = "pending"
    /\ transportCalls' = [transportCalls EXCEPT ![i] = [@ EXCEPT !.outcome = "resolved"]]
    /\ UNCHANGED <<videoAttached, status, isMuted, isFullscreen, rendered, display,
                   muteCalls, fullscreenCalls, notifVars, screenVars, loadVars, themeVars>>

\* video-player.tsx:132-134, 141-143, 153-155: the command rejected;
\* the catch logs and the handler returns
transportReject(i) ==
    /\ i \in 1..Len(transportCalls)
    /\ transportCalls[i].outcome = "pending"
    /\ UNCHANGED <<videoAttached, status, isMuted, isFullscreen, rendered, display,
                   muteCalls, fullscreenCalls, notifVars, screenVars, loadVars, themeVars>>
    /\ transportCalls' = [transportCalls EXCEPT ![i] =
          [caught(@) EXCEPT !.changed =
              <<status', isMuted', isFullscreen'>> # <<status, isMuted, isFullscreen>>]]

\* The status snapshots the transport claims are checked on
TransportStatuses == {NotLoaded, Loaded(5000, 65000), Loaded(60000, 65000)}

\* The status snapshots the display claims are checked on.
Positions == {0, 999, 1000, 9000, 59999, 60000, 65000, 125000, 3599999, 3725000}
Durations == {0, 1000, 65000, 125000, 3600000, 7325000}
DisplayStatuses ==
    {NullStatus, NotLoaded}
        \cup {Loaded(p, d) : p \in Positions, d \in Durations}
        \cup {LoadedNoDuration(p) : p \in Positions}

---------------------------------------------------------------------------
\* Theme store, src/contexts/ThemeContext.tsx

\* ThemeContext.tsx:13  type ColorScheme
ColorSchemes == {"light", "dark", "auto"}

\* What useRNColorScheme() can return; "null" stands for null / undefined
SystemSchemes == {"light", "dark", "null"}

\* What AsyncStorage.getItem can resolve to: "<null>" stands for null (no
\* value stored), the others are the stored string itself
StorageReads == {"<null>", "", "system", "light", "dark", "auto"}

\* ThemeContext.tsx:34  value && (value === 'light' || ... 'dark' || ... 'auto')
\* (faulty variant: any non-empty string is taken)
isRecognisedAny(value) == value # "<null>" /\ value # ""
isRecognised(value) ==
    /\ value # "<null>" /\ value # ""
    /\ (value = "light" \/ value = "dark" \/ value = "auto")

\* ThemeContext.tsx:45-48  the resolved colour scheme
resolveScheme(preference, system) ==
    IF preference = "auto"
    THEN (IF system = "null" THEN "dark" ELSE system)
    ELSE preference

\* ThemeContext.tsx:45-48  colorScheme as the provider's render derives it;
\* the provider has re-rendered before the next gesture reaches a handler
colorScheme == resolveScheme(themePreference, systemColorScheme)

\* ThemeContext.tsx:60  colorScheme === 'dark' ? 'light' : 'dark'
\* (faulty variant: the opposite of the stored preference)
oppositeOfPreference(scheme, preference) == IF preference = "dark" THEN "light" ELSE "dark"
newTheme(scheme, preference) == IF scheme = "dark" THEN "light" ELSE "dark"

\* ThemeContext.tsx:54-56  the catch of the persistence write only logs
\* (faulty variant: the in-memory value is put back)
revertOnFailure(current, previous) == previous
afterWriteFailure(current, previous) == current

\* ThemeContext.tsx:75  trigger: { seconds: 0.5 }, as the fraction num / den
HalfSecond == [num |-> 1, den |-> 2]
NoTrigger == [num |-> 0, den |-> 1]

\* Another writer changed themePreference while these calls were in flight
markInterfered(cs) ==
    [i \in DOMAIN cs |->
        IF cs[i].pc # "done" THEN [cs[i] EXCEPT !.interfered = TRUE] ELSE cs[i]]

\* The environment changes the system colour scheme
SystemSchemeChange(s) ==
    /\ s \in SystemSchemes
    /\ s # systemColorScheme
    /\ systemColorScheme' = s
    /\ UNCHANGED <<themePreference, isLoaded, stored, themeLoad, themeCalls,
                   notifVars, screenVars, loadVars, playerVars>>

\* ThemeContext.tsx:33-38  getItem resolved with `value`.  The read was
\* issued at mount, before any write, so it returns the initial content.
getItemResolve(value) ==
    /\ value \in StorageReads
    /\ themeLoad.pc = "getItem"
    /\ themePreference' = IF isRecognised(value) THEN value ELSE themePreference
    /\ isLoaded' = TRUE
    /\ stored' = IF stored = "unknown" THEN value ELSE stored
    /\ themeLoad' = [pc |-> "done", value |-> value, before |-> themePreference,
                     after |-> themePreference', setBefore |-> themeCalls # <<>>,
                     outcome |-> "resolved"]
    /\ themeCalls' = IF themePreference' # themePreference
                     THEN markInterfered(themeCalls) ELSE themeCalls
    /\ UNCHANGED <<systemColorScheme, notifVars, screenVars, loadVars, playerVars>>

\* ThemeContext.tsx:39-42  getItem rejected: .catch sets isLoaded only
getItemReject ==
    /\ themeLoad.pc = "getItem"
    /\ isLoaded' = TRUE
    /\ themeLoad' = [pc |-> "done", value |-> "none", before |-> themePreference,
                     after |-> themePreference, setBefore |-> themeCalls # <<>>,
                     outcome |-> "caught"]
    /\ UNCHANGED <<themePreference, systemColorScheme, stored, themeCalls,
                   notifVars, screenVars, loadVars, playerVars>>

\* ThemeContext.tsx:50-53  the synchronous part of setThemePreference(theme):
\* setThemePreferenceState(theme), then AsyncStorage.setItem is issued
beginSetThemePreference(kind, theme) ==
    /\ Len(themeCalls) < MaxThemeCalls
    /\ themePreference' = theme
    /\ themeCalls' = Append(markInterfered(themeCalls),
          [kind |-> kind, theme |-> theme,
           preferenceBefore |-> themePreference, systemBefore |-> systemColorScheme,
           schemeBefore |-> colorScheme,
           afterSync |-> themePreference',
           schemeAfter |-> resolveScheme(themePreference', systemColorScheme),
           pc |-> "setItem", write |-> "pending", interfered |-> FALSE,
           beforeSettle |-> "unset", atSettle |-> "unset", status |-> "unset",
           scheduled |-> FALSE, trigger |-> NoTrigger, outcome |-> "pending"])

\* ThemeContext.tsx:50-57  setThemePreference called by a consumer
setThemePreference(theme) ==
    /\ theme \in ColorSchemes
    /\ beginSetThemePreference("set", theme)
    /\ UNCHANGED <<isLoaded, systemColorScheme, stored, themeLoad,
                   notifVars, screenVars, loadVars, playerVars>>

\* ThemeContext.tsx:59-61  toggleTheme up to the write inside setThemePreference
toggleTheme ==
    /\ beginSetThemePreference("toggle", newTheme(colorScheme, themePreference))
    /\ UNCHANGED <<isLoaded, systemColorScheme, stored, themeLoad,
                   notifVars, screenVars, loadVars, playerVars>>

\* After the write settles setThemePreference returns; toggleTheme goes on
\* to the permission check (ThemeContext.tsx:64-65)
afterWrite(c, outcome, before, preference) ==
    IF c.kind = "set"
    THEN [c EXCEPT !.write = outcome, !.beforeSettle = before, !.atSettle = preference,
                   !.pc = "done", !.outcome = "returned"]
    ELSE [c EXCEPT !.write = outcome, !.beforeSettle = before, !.atSettle = preference,
                   !.pc = "getPermissions"]

\* ThemeContext.tsx:53  AsyncStorage.setItem resolved
setItemResolve(i) ==
    /\ i \in 1..Len(themeCalls)
    /\ themeCalls[i].pc = "setItem"
    /\ stored' = themeCalls[i].theme
    /\ themeCalls' = [themeCalls EXCEPT ![i] = afterWrite(@, "ok", themePreference, themePreference)]
    /\ UNCHANGED <<themePreference, isLoaded, systemColorScheme, themeLoad,
                   notifVars, screenVars, loadVars, playerVars>>

\* ThemeContext.tsx:54-56  AsyncStorage.setItem rejected: console.error
setItemReject(i) ==
    /\ i \in 1..Len(themeCalls)
    /\ themeCalls[i].pc = "setItem"
    /\ themePreference' = afterWriteFailure(themePreference, themeCalls[i].preferenceBefore)
    /\ themeCalls' = [themeCalls EXCEPT ![i] = afterWrite(@, "failed", themePreference, themePreference')]
    /\ UNCHANGED <<isLoaded, systemColorScheme, stored, themeLoad,
                   notifVars, screenVars, loadVars, playerVars>>

\* ThemeContext.tsx:65-78  getPermissionsAsync resolved; when granted the
\* confirmation is scheduled with trigger { seconds: 0.5 }
themePermissionsResolve(i) ==
    /\ i \in 1..Len(themeCalls)
    /\ themeCalls[i].pc = "getPermissions"
    /\ themeCalls' = [themeCalls EXCEPT ![i] =
          IF isGranted(permission)
          THEN [@ EXCEPT !.status = permission, !.pc = "schedule",
                         !.scheduled = TRUE, !.trigger = HalfSecond]
          ELSE [@ EXCEPT !.status = permission, !.pc = "done", !.outcome = "returned"]]
    /\ UNCHANGED <<themePreference, isLoaded, systemColorScheme, stored, themeLoad,
                   notifVars, screenVars, loadVars, playerVars>>

\* ThemeContext.tsx:79-83  getPermissionsAsync rejected: caught, dev warning
themePermissionsReject(i) ==
    /\ i \in 1..Len(themeCalls)
    /\ themeCalls[i].pc = "getPermissions"
    /\ themeCalls' = [themeCalls EXCEPT ![i] =
          [@ EXCEPT !.status = "rejected", !.pc = "done", !.outcome = "returned"]]
    /\ UNCHANGED <<themePreference, isLoaded, systemColorScheme, stored, themeLoad,
                   notifVars, screenVars, loadVars, playerVars>>

\* ThemeContext.tsx:67-77  scheduleNotificationAsync resolved
themeScheduleResolve(i) ==
    /\ i \in 1..Len(themeCalls)
    /\ themeCalls[i].pc = "schedule"
    /\ themeCalls' = [themeCalls EXCEPT ![i] = [@ EXCEPT !.pc = "done", !.outcome = "returned"]]
    /\ UNCHANGED <<themePreference, isLoaded, systemColorScheme, stored, themeLoad,
                   notifVars, screenVars, loadVars, playerVars>>

\* ThemeContext.tsx:79-83  scheduleNotificationAsync rejected: caught
themeScheduleReject(i) ==
    /\ i \in 1..Len(themeCalls)
    /\ themeCalls[i].pc = "schedule"
    /\ themeCalls' = [themeCalls EXCEPT ![i] =
          [@ EXCEPT !.pc = "done", !.outcome = "returned", !.status = "scheduleRejected"]]
    /\ UNCHANGED <<themePreference, isLoaded, systemColorScheme, stored, themeLoad,
                   notifVars, screenVars, loadVars, playerVars>>

---------------------------------------------------------------------------
Init ==
    /\ permission \in PermissionStatuses
    /\ calls = <<>>
    /\ platformCalls = <<>>
    /\ platformOS \in {"android", "ios"}
    /\ mounted = FALSE
    /\ router = 1
    /\ listeners = {}
    /\ subscription = 0
    /\ nextSub = 0
    /\ regs = <<>>
    /\ taps = <<>>
    /\ isLoading = TRUE
    /\ pageLoad = [n |-> 0, phase |-> "none"]
    /\ videoAttached = FALSE
    /\ status = NullStatus
    /\ isMuted = FALSE
    /\ isFullscreen = FALSE
    /\ rendered = [status |-> NullStatus, isMuted |-> FALSE, isFullscreen |-> FALSE]
    /\ display = deriveDisplay(NullStatus)
    /\ muteCalls = <<>>
    /\ fullscreenCalls = <<>>
    /\ transportCalls = <<>>
    /\ themePreference = "dark"
    /\ isLoaded = FALSE
    /\ systemColorScheme = "light"
    /\ stored = "unknown"
    /\ themeLoad = [pc |-> "getItem", value |-> "none", before |-> "none", after |-> "none",
                    setBefore |-> FALSE, outcome |-> "pending"]
    /\ themeCalls = <<>>

NextSchedule ==
    \/ \E d \in Delays, data \in DirectData : scheduleNotificationDirect(d, data)
    \/ \E i \in 1..MaxCalls : getPermissionsResolve(i)
    \/ \E i \in 1..MaxCalls : getPermissionsReject(i)
    \/ \E i \in 1..MaxCalls : scheduleResolve(i)
    \/ \E i \in 1..MaxCalls : scheduleReject(i)
    \/ \E p \in SettingsStatuses : PermissionChange(p)

SpecSchedule == Init /\ [][NextSchedule]_vars

\* The listener effect over the screen's lifetime, and notification taps.
NextTap ==
    \/ Mount
    \/ RouterChange
    \/ Unmount
    \/ \E data \in TapData : NotificationTap(data)

SpecTap == Init /\ [][NextTap]_vars

\* The screen's buttons and page-load events, with the calls they make.
NextWeb ==
    \/ Mount
    \/ \E delay \in FirstDelays : handleFirstNotification(delay)
    \/ handleSecondNotification
    \/ handleLoadStart
    \/ handleError
    \/ handleLoadEnd
    \/ \E i \in 1..MaxCalls : getPermissionsResolve(i)
    \/ \E i \in 1..MaxCalls : getPermissionsReject(i)
    \/ \E i \in 1..MaxCalls : scheduleResolve(i)
    \/ \E i \in 1..MaxCalls : scheduleReject(i)
    \/ \E p \in SettingsStatuses : PermissionChange(p)

SpecWeb == Init /\ [][NextWeb]_vars

\* The permission request the effect starts on every run.
NextRegister ==
    \/ Mount
    \/ RouterChange
    \/ Unmount
    \/ \E i \in 1..MaxEffects : channelResolve(i)
    \/ \E i \in 1..MaxEffects : channelReject(i)
    \/ \E i \in 1..MaxEffects, a \in SettingsStatuses : requestPermissionsResolve(i, a)
    \/ \E i \in 1..MaxEffects : requestPermissionsReject(i)
    \/ \E p \in SettingsStatuses : PermissionChange(p)

SpecRegister == Init /\ [][NextRegister]_vars

\* The labels and the progress bar under the status snapshots pushed.
NextDisplay ==
    \/ \E st \in DisplayStatuses : handlePlaybackStatusUpdate(st)
    \/ Render

SpecDisplay == Init /\ [][NextDisplay]_vars

\* The mute control.
NextPlayer ==
    \/ VideoRefAttach
    \/ handleToggleMute
    \/ \E i \in 1..MaxGestures : setIsMutedResolve(i)
    \/ \E i \in 1..MaxGestures : setIsMutedReject(i)
    \/ Render

SpecPlayer == Init /\ [][NextPlayer]_vars

\* The two toggles of the video player screen, mute and fullscreen
NextToggles ==
    \/ VideoRefAttach
    \/ handleToggleMute
    \/ \E i \in 1..MaxGestures : setIsMutedResolve(i) \/ setIsMutedReject(i)
    \/ handleToggleFullscreen
    \/ \E i \in 1..MaxFullscreen : fullscreenResolve(i) \/ fullscreenReject(i)
    \/ Render

SpecToggles == Init /\ [][NextToggles]_vars

\* The video player screen reads neither Platform.OS nor the permission
InitPlayer == Init /\ platformOS = "ios" /\ permission = "granted"

\* Play, pause and seek against the platform's status pushes
NextTransport ==
    \/ VideoRefAttach
    \/ \E st \in TransportStatuses : handlePlaybackStatusUpdate(st)
    \/ Render
    \/ handlePlay
    \/ handlePause
    \/ \E seconds \in SeekDeltas : handleSeek(seconds)
    \/ \E i \in 1..MaxTransport : transportResolve(i) \/ transportReject(i)

SpecTransport == InitPlayer /\ [][NextTransport]_vars

\* Mute gestures against an element that applies each command at some
\* moment before its promise resolves
NextMute ==
    \/ VideoRefAttach
    \/ handleToggleMute
    \/ \E i \in 1..MaxGestures : setIsMutedApply(i)
    \/ \E i \in 1..MaxGestures : setIsMutedResolve(i)
    \/ \E i \in 1..MaxGestures : setIsMutedReject(i)
    \/ Render

SpecMute == InitPlayer /\ [][NextMute]_vars

\* Every handler of the two screens and of the theme store, with every
\* platform call free to reject.  The screens and the store share no state
\* that a rejection path writes, so a behaviour exercises one of them, with
\* at most MaxHandlers handler invocations.
InitHandlers == Init /\ platformOS = "android"

Started ==
    Len(calls) + Len(muteCalls) + Len(fullscreenCalls) + Len(transportCalls)
        + Len(themeCalls)
MayStart == Started < MaxHandlers

WebIdle == ~mounted /\ regs = <<>> /\ calls = <<>>
PlayerIdle ==
    /\ ~videoAttached /\ status = NullStatus
    /\ muteCalls = <<>> /\ fullscreenCalls = <<>> /\ transportCalls = <<>>
ThemeIdle == themeLoad.pc = "getItem" /\ themeCalls = <<>>

OnlyWeb == PlayerIdle /\ ThemeIdle
OnlyPlayer == WebIdle /\ ThemeIdle
OnlyTheme == WebIdle /\ PlayerIdle

NextHandlers ==
    \/ (OnlyWeb /\ Mount)
    \/ \E i \in 1..MaxEffects : channelResolve(i) \/ channelReject(i)
    \/ \E i \in 1..MaxEffects, a \in SettingsStatuses : requestPermissionsResolve(i, a)
    \/ \E i \in 1..MaxEffects : requestPermissionsReject(i)
    \/ \E delay \in FirstDelays : MayStart /\ handleFirstNotification(delay)
    \/ (MayStart /\ handleSecondNotification)
    \/ handleLoadStart
    \/ (MayStart /\ handleLoadEnd)
    \/ \E i \in 1..MaxCalls : getPermissionsResolve(i) \/ getPermissionsReject(i)
    \/ \E i \in 1..MaxCalls : scheduleResolve(i) \/ scheduleReject(i)
    \/ (OnlyPlayer /\ VideoRefAttach)
    \/ (OnlyPlayer /\ handlePlaybackStatusUpdate(Loaded(5000, 65000)))
    \/ Render
    \/ (OnlyPlayer /\ MayStart /\ handlePlay)
    \/ (OnlyPlayer /\ MayStart /\ handlePause)
    \/ \E seconds \in SeekDeltas : OnlyPlayer /\ MayStart /\ handleSeek(seconds)
    \/ (OnlyPlayer /\ MayStart /\ handleToggleMute)
    \/ (OnlyPlayer /\ MayStart /\ handleToggleFullscreen)
    \/ \E i \in 1..MaxTransport : transportResolve(i) \/ transportReject(i)
    \/ \E i \in 1..MaxGestures : setIsMutedResolve(i) \/ setIsMutedReject(i)
    \/ \E i \in 1..MaxFullscreen : fullscreenResolve(i) \/ fullscreenReject(i)
    \/ \E value \in StorageReads : OnlyTheme /\ getItemResolve(value)
    \/ (OnlyTheme /\ getItemReject)
    \/ \E theme \in ColorSchemes : OnlyTheme /\ MayStart /\ setThemePreference(theme)
    \/ (OnlyTheme /\ MayStart /\ toggleTheme)
    \/ \E i \in 1..MaxThemeCalls :
          \/ setItemResolve(i)
          \/ setItemReject(i)
          \/ themePermissionsResolve(i)
          \/ themePermissionsReject(i)
          \/ themeScheduleResolve(i)
          \/ themeScheduleReject(i)

SpecHandlers == InitHandlers /\ [][NextHandlers]_vars

\* The theme store does not read Platform.OS
InitTheme == Init /\ platformOS = "ios"

\* The theme store's state: the initial load, setThemePreference, and
\* toggleTheme up to its permission check
NextThemeStore ==
    \/ \E s \in SystemSchemes : SystemSchemeChange(s)
    \/ \E value \in StorageReads : getItemResolve(value)
    \/ getItemReject
    \/ \E theme \in ColorSchemes : setThemePreference(theme)
    \/ toggleTheme
    \/ \E i \in 1..MaxThemeCalls : setItemResolve(i) \/ setItemReject(i)

SpecThemeStore == InitTheme /\ [][NextThemeStore]_vars

\* toggleTheme with its confirmation notification
NextTheme ==
    \/ \E s \in SystemSchemes : SystemSchemeChange(s)
    \/ \E value \in StorageReads : getItemResolve(value)
    \/ getItemReject
    \/ toggleTheme
    \/ \E i \in 1..MaxThemeCalls :
          \/ setItemResolve(i)
          \/ setItemReject(i)
          \/ themePermissionsResolve(i)
          \/ themePermissionsReject(i)
          \/ themeScheduleResolve(i)
          \/ themeScheduleReject(i)

SpecTheme == InitTheme /\ [][NextTheme]_vars

---------------------------------------------------------------------------
(* C1: every trigger scheduleNotification passes to the platform scheduler *)
(* has seconds exactly 1 when the requested delaySeconds was <= 0, and the *)
(* requested delaySeconds unchanged when it was >= 1.                      *)
C1_DelayClamped ==
    \A k \in 1..Len(platformCalls) :
        LET p == platformCalls[k]
            c == calls[p.call]
        IN /\ c.requested <= 0 => p.seconds = 1
           /\ c.requested >= 1 => p.seconds = c.requested

C1_Witness ==
    \E k \in 1..Len(platformCalls) :
        /\ calls[platformCalls[k].call].requested = -3
        /\ calls[platformCalls[k].call].result = "true"
        /\ platformCalls[k].seconds = 1

(* C2: a platform scheduling call is issued only by a call whose own       *)
(* permission check answered 'granted'; a call whose check answered        *)
(* anything else returns false, issues no platform call and does not throw.*)
C2_PermissionCheckedInCall ==
    /\ \A k \in 1..Len(platformCalls) : calls[platformCalls[k].call].status = "granted"
    /\ \A i \in 1..Len(calls) :
          calls[i].status \in {"denied", "undetermined"} =>
              /\ calls[i].pc = "returned"
              /\ calls[i].result = "false"
              /\ ~calls[i].rejected
              /\ \A k \in 1..Len(platformCalls) : platformCalls[k].call # i

\* granted at the first call, revoked before the second
C2_Witness ==
    /\ Len(calls) >= 2
    /\ calls[1].status = "granted" /\ calls[1].result = "true"
    /\ calls[2].status = "denied" /\ calls[2].result = "false"


(* C3: when the permission check or the platform scheduling call rejects,  *)
(* scheduleNotification catches it: the call resolves to false, the error  *)
(* alert is shown, and no call ever rejects towards its caller.            *)
C3_RejectionCaught ==
    \A i \in 1..Len(calls) :
        /\ ~calls[i].rejected
        /\ (calls[i].status = "rejected" \/ calls[i].scheduleOutcome = "rejected") =>
              /\ calls[i].pc = "returned"
              /\ calls[i].result = "false"
              /\ calls[i].errorAlert
              /\ ~calls[i].feedbackAlert

\* a button's scheduling call rejected, and the page-load call's permission
\* check rejected
C3_Witness ==
    \E i, j \in 1..Len(calls) :
        /\ calls[i].caller \in {"first", "second"}
        /\ calls[i].scheduleOutcome = "rejected" /\ calls[i].result = "false"
        /\ calls[j].caller = "loadEnd"
        /\ calls[j].status = "rejected" /\ calls[j].result = "false"

(* C4: while the screen is mounted, a notification tap whose payload has   *)
(* openVideoPlayer truthy pushes '/video-player' exactly once, and a tap   *)
(* whose payload lacks the flag pushes nothing.  (Mounted means the        *)
(* listener effect has run: Mount includes it.)                            *)
C4_TapNavigatesOnce ==
    \A k \in 1..Len(taps) :
        taps[k].mounted =>
            taps[k].pushes = IF taps[k].data.openVideoPlayer = "true" THEN 1 ELSE 0

\* after the effect re-ran with a new router: one flagged tap, one unflagged
C4_Witness ==
    \E k, m \in 1..Len(taps) :
        /\ taps[k].mounted /\ taps[k].router > 1
        /\ taps[k].data = OpenVideoData /\ taps[k].pushes = 1
        /\ taps[m].mounted /\ taps[m].router > 1
        /\ taps[m].data = EmptyData /\ taps[m].pushes = 0

(* C5: at most one tap listener of the screen is live, none is live once   *)
(* the screen is unmounted, and a tap only ever runs the handler of the    *)
(* current effect: it never navigates through a router other than the      *)
(* current one, and never navigates after the unmount.                     *)
C5_ListenerReleased ==
    /\ Cardinality(listeners) <= 1
    /\ ~mounted => listeners = {}
    /\ mounted => listeners = {[id |-> subscription, router |-> router]}
    /\ \A k \in 1..Len(taps) :
          /\ taps[k].via \subseteq {taps[k].router}
          /\ taps[k].handlers <= 1
          /\ ~taps[k].mounted => taps[k].handlers = 0 /\ taps[k].pushes = 0

\* a flagged tap after the unmount, and one after the router changed
C5_Witness ==
    \E k, m \in 1..Len(taps) :
        /\ ~taps[k].mounted /\ nextSub >= 1
        /\ taps[k].data = OpenVideoData /\ taps[k].pushes = 0
        /\ taps[m].mounted /\ taps[m].router = 2 /\ taps[m].via = {2}

(* C6: when onError fires before onLoadEnd for a page load, isLoading is   *)
(* cleared and no 'WebView Loaded!' notification is scheduled for that     *)
(* load.                                                                   *)
C6_NoLoadedNotificationAfterError ==
    pageLoad.phase \in {"errored", "erroredEnded"} =>
        /\ ~isLoading
        /\ \A k \in 1..Len(platformCalls) :
              ~(/\ platformCalls[k].title = "WebView Loaded!"
                /\ calls[platformCalls[k].call].load = pageLoad.n)


\* Two fractions with positive denominators are the same number when their
\* lowest terms agree.
RECURSIVE Gcd(_, _)
Gcd(a, b) == IF b = 0 THEN a ELSE Gcd(b, a % b)
LowestTerms(num, den) == <<num \div Gcd(num, den), den \div Gcd(num, den)>>

(* C7 as stated: for every loaded status with positionMillis >= 0 and      *)
(* durationMillis > 0, getProgress is exactly positionMillis /             *)
(* durationMillis * 100 and lies in 0..100.                                *)
C7_ProgressInRange ==
    LET st == rendered.status
        pr == display.progress
    IN (st.kind = "loaded" /\ st.hasDuration /\ st.positionMillis >= 0 /\ st.durationMillis > 0) =>
          /\ pr.den > 0
          /\ LowestTerms(pr.num, pr.den) = LowestTerms(st.positionMillis * 100, st.durationMillis)
          /\ 0 <= pr.num /\ pr.num <= 100 * pr.den

(* C7 amended: for every loaded status with positionMillis >= 0 and        *)
(* durationMillis > 0, getProgress is exactly positionMillis /             *)
(* durationMillis * 100; that value is >= 0, and it is <= 100 exactly when *)
(* positionMillis <= durationMillis.                                       *)
C7_ProgressExact ==
    LET st == rendered.status
        pr == display.progress
    IN (st.kind = "loaded" /\ st.hasDuration /\ st.positionMillis >= 0 /\ st.durationMillis > 0) =>
          /\ pr.den > 0
          /\ LowestTerms(pr.num, pr.den) = LowestTerms(st.positionMillis * 100, st.durationMillis)
          /\ 0 <= pr.num
          /\ (pr.num <= 100 * pr.den) <=> (st.positionMillis <= st.durationMillis)

\* a rendered snapshot strictly inside the duration
C7_Witness ==
    /\ rendered.status = Loaded(9000, 65000)
    /\ 0 < display.progress.num
    /\ display.progress.num < 100 * display.progress.den

(* C8: with the status absent, not loaded, or its durationMillis unknown   *)
(* or 0, getProgress is 0 with no division by the duration and getDuration *)
(* is "0:00"; with no positionMillis, getCurrentTime is "0:00".            *)
C8_NoDurationGuard ==
    LET st == rendered.status
    IN /\ (st.kind # "loaded" \/ ~st.hasDuration \/ st.durationMillis = 0) =>
              /\ display.progress.num = 0
              /\ ~display.progress.divided
              /\ display.duration = "0:00"
       /\ st.kind # "loaded" => display.currentTime = "0:00"

\* a playing position with a duration of 0
C8_Witness ==
    /\ rendered.status = Loaded(65000, 0)
    /\ display.progress.num = 0
    /\ display.duration = "0:00"

(* C9: for every millisecond value m >= 0 the label is M:SS with           *)
(* M = floor(floor(m/1000)/60) unpadded and unbounded and                  *)
(* SS = floor(m/1000) mod 60 as two digits; position 65000 with duration   *)
(* 125000 shows "1:05", "2:05" and progress 52.                            *)
DigitChar == <<"0", "1", "2", "3", "4", "5", "6", "7", "8", "9">>
ExpectedLabel(m) ==
    LET total == m \div 1000
        ss == total % 60
    IN ToString(total \div 60) \o ":" \o DigitChar[(ss \div 10) + 1] \o DigitChar[(ss % 10) + 1]

C9_TimeLabels ==
    LET st == rendered.status
    IN /\ (st.kind = "loaded" /\ st.positionMillis >= 0) =>
              display.currentTime = ExpectedLabel(st.positionMillis)
       /\ (st.kind = "loaded" /\ st.hasDuration /\ st.durationMillis >= 0) =>
              display.duration = ExpectedLabel(st.durationMillis)
       /\ st = Loaded(65000, 125000) =>
              /\ display.currentTime = "1:05"
              /\ display.duration = "2:05"
              /\ display.progress.num = 52 * display.progress.den

\* more than an hour: the minutes run past 59
C9_Witness ==
    /\ rendered.status = Loaded(3725000, 7325000)
    /\ display.currentTime = "62:05"
    /\ display.duration = "122:05"

(* C10: two mute toggles in sequence, each started with every earlier      *)
(* command settled and the screen re-rendered, and each resolved, leave    *)
(* isMuted at its original value; the commands they issue carry the        *)
(* negation of the original value and then the original value.             *)
C10_ToggleTwice ==
    \A i \in 1..(Len(muteCalls) - 1) :
        LET first == muteCalls[i]
            second == muteCalls[i + 1]
        IN (/\ first.sequential /\ second.sequential
            /\ first.outcome \in {"resolved", "noCommand"}
            /\ second.outcome \in {"resolved", "noCommand"}) =>
               /\ second.after = BoolName(first.before)
               /\ first.cmd \in {"none", BoolName(~first.before)}
               /\ second.cmd \in {"none", BoolName(first.before)}

\* two awaited toggles that both reached the element
C10_Witness ==
    \E i \in 1..(Len(muteCalls) - 1) :
        /\ muteCalls[i].sequential /\ muteCalls[i + 1].sequential
        /\ muteCalls[i].outcome = "resolved" /\ muteCalls[i + 1].outcome = "resolved"
        /\ muteCalls[i].cmd = "true" /\ muteCalls[i + 1].cmd = "false"
        /\ muteCalls[i + 1].after = BoolName(muteCalls[i].before)

\* C11: isMuted and isFullscreen change only in the step in which a toggle
\* command that was issued to the player resolves: never while the command
\* is pending, never when it rejects, and never when no command was issued
\* (the element not attached).
C11_ChangeOnlyOnResolve ==
    [][ /\ (isMuted' # isMuted =>
               \E i \in 1..Len(muteCalls) :
                   /\ muteCalls[i].cmd # "none"
                   /\ muteCalls[i].outcome = "pending"
                   /\ muteCalls'[i].outcome = "resolved")
        /\ (isFullscreen' # isFullscreen =>
               \E i \in 1..Len(fullscreenCalls) :
                   /\ fullscreenCalls[i].cmd # "none"
                   /\ fullscreenCalls[i].outcome = "pending"
                   /\ fullscreenCalls'[i].outcome = "resolved") ]_vars


\* C12: every request submitted to the platform scheduler, by
\* scheduleNotification (both buttons, page load) or by toggleTheme's
\* confirmation, carries a delay that is an integer number of seconds >= 1.
C12_DelayIntegerAtLeastOne ==
    /\ \A k \in 1..Len(platformCalls) : platformCalls[k].seconds >= 1
    /\ \A i \in 1..Len(themeCalls) :
          themeCalls[i].scheduled =>
              /\ themeCalls[i].trigger.num % themeCalls[i].trigger.den = 0
              /\ themeCalls[i].trigger.num >= themeCalls[i].trigger.den


ExpectedToggle(preference, system) ==
    CASE preference = "light" -> "dark"
      [] preference = "dark" -> "light"
      [] preference = "auto" /\ system = "light" -> "dark"
      [] OTHER -> "light"

\* C15: toggleTheme sets the preference to the opposite of the resolved
\* colorScheme, not of the stored preference: from 'auto' with the system
\* scheme dark or unknown it sets 'light', with the system scheme light it
\* sets 'dark'.  Right after a toggle the preference is 'light' or 'dark',
\* never 'auto', and the resolved colorScheme differs from the one before.
C15_ToggleOppositeOfResolved ==
    \A i \in 1..Len(themeCalls) :
        LET c == themeCalls[i]
        IN c.kind = "toggle" =>
              /\ c.theme = ExpectedToggle(c.preferenceBefore, c.systemBefore)
              /\ c.afterSync = c.theme
              /\ c.afterSync \in {"light", "dark"}
              /\ c.schemeAfter # c.schemeBefore

\* A toggle from 'auto' with the system scheme unknown, and the write settled
C15_Witness ==
    \E i \in 1..Len(themeCalls) :
        /\ themeCalls[i].kind = "toggle"
        /\ themeCalls[i].preferenceBefore = "auto"
        /\ themeCalls[i].systemBefore = "null"
        /\ themeCalls[i].theme = "light"
        /\ themeCalls[i].write # "pending"


\* C16: the preference is 'dark' from the start until something sets it.
\* When the initial storage read resolves with no value or an unrecognised
\* one, or rejects, the preference stays what it was (the default when no
\* set came first); when it resolves with 'light', 'dark' or 'auto' the
\* preference becomes that value.
C16_LoadOutcome ==
    /\ (themeLoad.pc = "getItem" /\ themeCalls = <<>>) => themePreference = "dark"
    /\ themeLoad.pc = "done" =>
          /\ ~themeLoad.setBefore => themeLoad.before = "dark"
          /\ themeLoad.outcome = "caught" => themeLoad.after = themeLoad.before
          /\ themeLoad.outcome = "resolved" =>
                IF themeLoad.value \in {"light", "dark", "auto"}
                THEN themeLoad.after = themeLoad.value
                ELSE themeLoad.after = themeLoad.before
    /\ (themeLoad.pc = "done" /\ themeCalls = <<>>) => themePreference = themeLoad.after

\* The read returned a string that is no colour scheme and the default stands
C16_Witness ==
    /\ themeLoad.outcome = "resolved"
    /\ themeLoad.value = "system"
    /\ themeCalls = <<>>
    /\ themePreference = "dark"
    /\ isLoaded


\* C18: a seek gesture with the element attached sends one absolute seek to
\* positionMillis + seconds * 1000, where positionMillis is the position of
\* the status snapshot the screen holds, with no clamping to zero or to the
\* duration; when that status is null or not loaded it sends no seek.
C18_SeekUnclamped ==
    \A i \in 1..Len(transportCalls) :
        LET c == transportCalls[i]
        IN c.kind = "seek" =>
              /\ (hasPosition(c.captured) /\ c.attached) =>
                    c.commands = <<[cmd |-> "setPositionAsync",
                                    position |-> c.captured.positionMillis + c.seconds * 1000]>>
              /\ ~hasPosition(c.captured) => c.commands = <<>>
              /\ ~c.attached => c.commands = <<>>

\* One seek went below zero and another beyond the duration
C18_Witness ==
    \E i, j \in 1..Len(transportCalls) :
        /\ transportCalls[i].kind = "seek" /\ transportCalls[i].commands # <<>>
        /\ transportCalls[i].commands[1].position < 0
        /\ transportCalls[j].kind = "seek" /\ transportCalls[j].commands # <<>>
        /\ transportCalls[j].commands[1].position > transportCalls[j].captured.durationMillis

\* C19: a play or pause gesture sends no command when the element is not
\* attached and exactly one command, playAsync or pauseAsync, when it is;
\* a command that rejects is caught and its rejection leaves status,
\* isMuted and isFullscreen unchanged.
C19_PlayPauseCommands ==
    \A i \in 1..Len(transportCalls) :
        LET c == transportCalls[i]
        IN c.kind \in {"play", "pause"} =>
              /\ ~c.attached => c.commands = <<>> /\ c.outcome = "noCommand"
              /\ c.attached =>
                    /\ Len(c.commands) = 1
                    /\ c.commands[1].cmd = IF c.kind = "play" THEN "playAsync" ELSE "pauseAsync"
              /\ c.outcome # "unhandled"
              /\ c.outcome = "rejected" => ~c.changed

\* A pause pressed before the element attached, then a play that rejected
C19_Witness ==
    \E i, j \in 1..Len(transportCalls) :
        /\ transportCalls[i].kind = "pause" /\ ~transportCalls[i].attached
        /\ transportCalls[i].outcome = "noCommand"
        /\ transportCalls[j].kind = "play" /\ transportCalls[j].attached
        /\ transportCalls[j].outcome = "rejected"


\* The platform scheduling calls made for scheduleNotification call i
requestsOf(i) == {k \in 1..Len(platformCalls) : platformCalls[k].call = i}

\* C20: scheduling is never deduplicated.  Every press whose permission
\* check came back granted has exactly one platform scheduling call of its
\* own, carrying its title, payload and delay, whatever other presses are
\* pending or done, so n accepted presses make n platform calls; and a
\* request once submitted is never removed or altered.
C20_NoDeduplication ==
    /\ \A i \in 1..Len(calls) :
          /\ calls[i].status = "granted" =>
                /\ Cardinality(requestsOf(i)) = 1
                /\ \A k \in requestsOf(i) :
                      /\ platformCalls[k].title = calls[i].title
                      /\ platformCalls[k].data = dataOrEmpty(calls[i].data)
                      /\ platformCalls[k].seconds = calls[i].delaySeconds
          /\ calls[i].result = "true" => Cardinality(requestsOf(i)) = 1
          /\ calls[i].status # "granted" => requestsOf(i) = {}
    /\ Len(platformCalls) =
          Cardinality({i \in 1..Len(calls) : calls[i].status = "granted"})

\* The second button pressed twice, both presses accepted: two identical
\* requests at the platform
C20_Witness ==
    /\ Len(calls) = 2
    /\ \A i \in 1..2 : calls[i].caller = "second" /\ calls[i].result = "true"
    /\ Len(platformCalls) = 2
    /\ platformCalls[1].seconds = platformCalls[2].seconds
    /\ platformCalls[1].data = platformCalls[2].data


\* C17: no handler ends in an unhandled rejection, whichever platform calls
\* reject: a rejected channel registration or permission request makes
\* registration return false; a rejected permission check or scheduling call
\* makes scheduleNotification return false; a rejected play, pause, seek,
\* set-muted or fullscreen command, storage read or storage write is caught
\* in the handler that issued it, which then returns or goes on.
C17_NoUnhandledRejection ==
    /\ \A i \in 1..Len(regs) :
          (regs[i].channel = "rejected" \/ regs[i].status = "rejected") =>
              regs[i].pc = "returned" /\ regs[i].result = "false"
    /\ \A i \in 1..Len(calls) :
          /\ ~calls[i].rejected
          /\ (calls[i].status = "rejected" \/ calls[i].scheduleOutcome = "rejected") =>
                calls[i].pc = "returned" /\ calls[i].result = "false"
    /\ \A i \in 1..Len(transportCalls) : transportCalls[i].outcome # "unhandled"
    /\ \A i \in 1..Len(muteCalls) : muteCalls[i].outcome # "unhandled"
    /\ \A i \in 1..Len(fullscreenCalls) : fullscreenCalls[i].outcome # "unhandled"
    /\ themeLoad.outcome \in {"pending", "resolved", "caught"}
    /\ \A i \in 1..Len(themeCalls) :
          /\ themeCalls[i].outcome \in {"pending", "returned"}
          /\ themeCalls[i].write = "failed" => themeCalls[i].pc # "setItem"
          /\ themeCalls[i].status \in {"rejected", "scheduleRejected"} =>
                themeCalls[i].outcome = "returned"

\* A seek command and a fullscreen command have both rejected
C17_Witness ==
    /\ \E i \in 1..Len(transportCalls) :
          transportCalls[i].kind = "seek" /\ transportCalls[i].outcome = "rejected"
    /\ \E i \in 1..Len(fullscreenCalls) : fullscreenCalls[i].outcome = "rejected"


\* C21: on android registerForPushNotificationsAsync registers the default
\* channel first and requests consent only after that has resolved; it
\* returns true exactly when the consent status is 'granted'; when consent
\* is not granted it shows one alert, returns false and does not ask again;
\* a rejecting channel registration or permission request makes it return
\* false.
C21_RegistrationOrderAndResult ==
    \A i \in 1..Len(regs) :
        LET r == regs[i]
            requests == {k \in 1..Len(r.issued) : r.issued[k] = "requestPermissionsAsync"}
        IN /\ Cardinality(requests) <= 1
           /\ platformOS = "android" =>
                 /\ r.issued[1] = "setNotificationChannelAsync"
                 /\ requests # {} => requests = {2} /\ r.channel = "registered"
           /\ platformOS # "android" => r.issued = <<"requestPermissionsAsync">>
           /\ r.pc = "returned" =>
                 /\ r.result = "true" <=> r.status = "granted"
                 /\ r.result \in {"true", "false"}
                 /\ r.status = "denied" => r.alerts = 1 /\ r.result = "false"
                 /\ r.status \in {"granted", "rejected", "unasked"} => r.alerts = 0
                 /\ (r.channel = "rejected" \/ r.status = "rejected") => r.result = "false"
                 /\ r.channel = "rejected" => requests = {}

\* On android one registration was denied consent and another one's
\* channel registration rejected
C21_Witness ==
    /\ platformOS = "android"
    /\ \E i, j \in 1..Len(regs) :
          /\ regs[i].pc = "returned" /\ regs[i].status = "denied"
          /\ regs[i].alerts = 1 /\ regs[i].result = "false"
          /\ regs[j].pc = "returned" /\ regs[j].channel = "rejected"


\* C22: isLoading is true exactly when the most recent load event was
\* onLoadStart or none has occurred yet; onLoadEnd and onError each clear
\* it, and onLoadEnd has cleared it whatever the page-load notification's
\* scheduling call does afterwards (still pending, not granted, rejected).
C22_LoadingFollowsLastEvent ==
    /\ isLoading <=> pageLoad.phase \in {"none", "started"}
    /\ \A i \in 1..Len(calls) :
          (calls[i].caller = "loadEnd" /\ calls[i].load = pageLoad.n
              /\ pageLoad.phase \in {"ended", "erroredEnded"}) => ~isLoading

\* The first load's notification was rejected by the scheduler, the second
\* load has ended and its notification's permission check is still pending
C22_Witness ==
    /\ pageLoad.n = 2 /\ pageLoad.phase = "ended" /\ ~isLoading
    /\ \E i, j \in 1..Len(calls) :
          /\ calls[i].caller = "loadEnd" /\ calls[i].load = 1
          /\ calls[i].scheduleOutcome = "rejected"
          /\ calls[j].caller = "loadEnd" /\ calls[j].load = 2
          /\ calls[j].pc = "getPermissions"


\* C23: once a setThemePreference or toggleTheme has run, themePreference
\* stays at the value the latest of them set, also when the initial storage
\* read completes after it; and then, when no storage operation is pending
\* and no write has failed, the in-memory preference equals the persisted
\* value.
C23_UserChoiceKept ==
    themeCalls # <<>> =>
        /\ themePreference = themeCalls[Len(themeCalls)].theme
        /\ (/\ themeLoad.pc = "done"
            /\ \A i \in 1..Len(themeCalls) :
                  themeCalls[i].write = "ok") => themePreference = stored


\* The set-muted commands the media element has applied
appliedCommands == {k \in 1..Len(muteCalls) : muteCalls[k].applied > 0}

=============================================================================
